---------------------------- MODULE Spec2Model ----------------------------
(***************************************************************************)
(* Host-side control flow of optixProgressivePhotonMap.cpp: command-line   *)
(* parsing in main, context and buffer set-up, the GLFW callbacks and the  *)
(* display loop of glfwRun with its three launches (rtpass, ppass,         *)
(* gather), and the two ways the interactive run ends.                     *)
(***************************************************************************)
EXTENDS Integers, Sequences, FiniteSets, TLC

VARIABLES
    argv,               \* argv[1..argc-1] of main
    i,                  \* loop index of main's argument loop (1-based here)
    use_pbo,            \* main: bool use_pbo
    out_file,           \* main: std::string out_file ("" = empty)
    mesh_files,         \* main: std::vector<std::string> mesh_files
    pc,                 \* position of the single host thread
    exit_code,          \* -1 while running, else the status of exit()/return
    context,            \* global Context handle: "null", "live", "destroyed"
    destroys,           \* number of context->destroy() calls made
    window,             \* "none", "open", "destroyed"
    glfw,               \* "off", "init", "terminated"
    teardown,           \* sequence of tear-down calls made so far
    misuse,             \* a launch / variable / buffer access on a context that is not live
    shouldClose,        \* glfwWindowShouldClose( window )
    camera,             \* sutil::Camera: [width, height]
    buf,                \* dimensions of the four per-pixel buffers
    accumulation_frame, \* glfwRun: unsigned int accumulation_frame
    frame_count,        \* glfwRun: unsigned int frame_count
    frame_number,       \* context["frame_number"]
    total_emitted,      \* context["total_emitted"]
    inflight,           \* set of entry points whose launch has not returned
    launches,           \* launches of the current loop iteration, in order
    hits_stale,         \* rtpass_output_buffer holds no hit records of the current camera
    lastSize,           \* (w, h) of the latest window-size event with w >= 0, h >= 0
    lastEvent,          \* the latest callback delivered by glfwPollEvents
    written             \* files written by sutil::writeBufferToFile

vars ==
    << argv, i, use_pbo, out_file, mesh_files, pc, exit_code, context, destroys,
       window, glfw, teardown, misuse, shouldClose, camera, buf,
       accumulation_frame, frame_count, frame_number, total_emitted, inflight,
       launches, hits_stale, lastSize, lastEvent, written >>

mainVars ==
    << argv, i, use_pbo, out_file, mesh_files >>

loopVars ==
    << accumulation_frame, frame_count, frame_number, total_emitted, inflight,
       launches, hits_stale, lastSize, lastEvent >>

-----------------------------------------------------------------------------
(* Program constants *)

WIDTH ==
    768

HEIGHT ==
    768

photon_launch_dim ==
    512

FLOAT_MANTISSA ==
    24

(* Bounds of the model *)

MaxArgs ==
    2

MaxFrames ==
    3

Args ==
    {"-h", "-f", "--file", "-n", "-x", "out.ppm"}

Dashed ==
    {"-h", "--help", "-f", "--file", "-n", "--nopbo", "-x"}

Sizes ==
    {-1, 0, WIDTH}

Keys ==
    {"Q", "ESCAPE", "S", "F", "A"}

KeyActions ==
    {"PRESS", "RELEASE", "REPEAT"}

Programs ==
    {"rtpass", "ppass", "gather"}

PixelBuffers ==
    {"output_buffer", "debug_buffer", "rtpass_output_buffer", "image_rnd_seeds"}

OUTPUT_IMAGE ==
    "optixProgressivePhotonMap.png"

NoEvent ==
    [kind |-> "none", seq |-> 0]

-----------------------------------------------------------------------------
(* Helpers *)

RECURSIVE Pow2(_)
Pow2(n) ==
    IF n = 0 THEN 1 ELSE 2 * Pow2(n - 1)

RECURSIVE UlpOf(_, _)
UlpOf(n, u) ==
    IF n \div u < Pow2(FLOAT_MANTISSA) THEN u ELSE UlpOf(n, 2 * u)

\* static_cast<float>( n ) of a non-negative integer: round to nearest, ties to even
ToFloat(n) ==
    LET u == UlpOf(n, 1)
        q == n \div u
        r == n % u
    IN  IF 2 * r > u \/ (2 * r = u /\ q % 2 = 1) THEN (q + 1) * u ELSE q * u

\* x++ on an unsigned int; the counters stay below MaxFrames here, far from the
\* wrap at 2^32
IncU(x) ==
    x + 1

\* sutil::Camera::resize: true iff the size changed; the new size is stored
CameraResize(cam, w, h) ==
    [changed |-> ~(cam.width = w /\ cam.height = h),
     cam     |-> [width |-> w, height |-> h]]

\* every use of the global context (operator[], launch, getBuffer) needs a live one
Use ==
    misuse' = (misuse \/ context # "live")

Launch(prog, w, h) ==
    [prog |-> prog, w |-> w, h |-> h, frame_number |-> frame_number,
     accumulation_frame |-> accumulation_frame, buf |-> buf, stale |-> hits_stale]

-----------------------------------------------------------------------------
Init ==
    /\ argv \in UNION {[1..n -> Args] : n \in 0..MaxArgs}
    /\ i = 1
    /\ use_pbo = TRUE
    /\ out_file = ""
    /\ mesh_files = << >>
    /\ pc = "parse"
    /\ exit_code = -1
    /\ context = "null"
    /\ destroys = 0
    /\ window = "none"
    /\ glfw = "off"
    /\ teardown = << >>
    /\ misuse = FALSE
    /\ shouldClose = FALSE
    /\ camera = [width |-> 0, height |-> 0]
    /\ buf = [b \in PixelBuffers |-> <<0, 0>>]
    /\ accumulation_frame = 0
    /\ frame_count = 0
    /\ frame_number = 0
    /\ total_emitted = 0
    /\ inflight = {}
    /\ launches = << >>
    /\ hits_stale = TRUE
    /\ lastSize = <<WIDTH, HEIGHT>>
    /\ lastEvent = NoEvent
    /\ written = {}

-----------------------------------------------------------------------------
(* main: the argument loop *)

\* printUsageAndExit: exit(1)
UsageExit ==
    /\ pc' = "exited"
    /\ exit_code' = 1

restOfMain ==
    << context, destroys, window, glfw, teardown, misuse, shouldClose, camera,
       buf, written >>

restOfMainButClose ==
    << context, destroys, window, glfw, teardown, misuse, camera, buf, written >>

ParseHelp ==
    /\ pc = "parse"
    /\ i <= Len(argv)
    /\ argv[i] \in {"-h", "--help"}
    /\ UsageExit
    /\ UNCHANGED << mainVars, restOfMain, loopVars >>

ParseFile ==
    /\ pc = "parse"
    /\ i <= Len(argv)
    /\ argv[i] \in {"-f", "--file"}
    /\ IF i = Len(argv)
         THEN /\ UsageExit
              /\ UNCHANGED << i, out_file >>
         ELSE /\ out_file' = argv[i + 1]
              /\ i' = i + 2
              /\ UNCHANGED << pc, exit_code >>
    /\ UNCHANGED << argv, use_pbo, mesh_files, restOfMain, loopVars >>

ParseNoPbo ==
    /\ pc = "parse"
    /\ i <= Len(argv)
    /\ argv[i] \in {"-n", "--nopbo"}
    /\ use_pbo' = FALSE
    /\ i' = i + 1
    /\ UNCHANGED << argv, out_file, mesh_files, pc, exit_code, restOfMain, loopVars >>

ParseUnknown ==
    /\ pc = "parse"
    /\ i <= Len(argv)
    /\ argv[i] \notin {"-h", "--help", "-f", "--file", "-n", "--nopbo"}
    /\ argv[i] \in Dashed
    /\ UsageExit
    /\ UNCHANGED << mainVars, restOfMain, loopVars >>

ParseMesh ==
    /\ pc = "parse"
    /\ i <= Len(argv)
    /\ argv[i] \notin Dashed
    /\ mesh_files' = Append(mesh_files, argv[i])
    /\ i' = i + 1
    /\ UNCHANGED << argv, use_pbo, out_file, pc, exit_code, restOfMain, loopVars >>

ParseDone ==
    /\ pc = "parse"
    /\ i > Len(argv)
    /\ pc' = "glfwInitialize"
    /\ UNCHANGED << mainVars, exit_code, restOfMain, loopVars >>

-----------------------------------------------------------------------------
(* main: set-up *)

GlfwInitialize ==
    /\ pc = "glfwInitialize"
    /\ glfw' = "init"
    /\ window' = "open"
    /\ pc' = "glewInit"
    /\ UNCHANGED << mainVars, exit_code, context, destroys, teardown, misuse,
                    shouldClose, camera, buf, written, loopVars >>

GlewInit(ok) ==
    /\ pc = "glewInit"
    /\ IF ok
         THEN /\ pc' = "createContext"
              /\ UNCHANGED exit_code
         ELSE /\ pc' = "exited"
              /\ exit_code' = 1
    /\ UNCHANGED << mainVars, restOfMain, loopVars >>

\* createContext, the camera, material, geometry and light, context->validate()
CreateContext ==
    /\ pc = "createContext"
    /\ context' = "live"
    /\ frame_number' = ToFloat(0)
    /\ total_emitted' = ToFloat(0)
    /\ buf' = [b \in PixelBuffers |-> <<WIDTH, HEIGHT>>]
    /\ camera' = [width |-> WIDTH, height |-> HEIGHT]
    /\ pc' = "branch"
    /\ UNCHANGED << mainVars, exit_code, destroys, window, glfw, teardown, misuse,
                    shouldClose, written, accumulation_frame, frame_count,
                    inflight, launches, hits_stale, lastSize, lastEvent >>

\* if ( out_file.empty() ) glfwRun( window, camera ); else { /* TODO: batch mode */ }
\* with the part of glfwRun that precedes its loop
MainBranch ==
    /\ pc = "branch"
    /\ IF out_file = ""
         THEN /\ frame_count' = 0
              /\ accumulation_frame' = 0
              /\ pc' = "loop"
              /\ UNCHANGED exit_code
         ELSE /\ pc' = "returned"
              /\ exit_code' = 0
              /\ UNCHANGED << frame_count, accumulation_frame >>
    /\ UNCHANGED << mainVars, restOfMain, frame_number, total_emitted, inflight,
                    launches, hits_stale, lastSize, lastEvent >>

-----------------------------------------------------------------------------
(* destroyContext *)

\* if( context ) { context->destroy(); context = 0; }
DestroyContext(ctx, n, log) ==
    IF ctx # "null"
      THEN [context |-> "null", destroys |-> n + 1,
            teardown |-> Append(log, "context->destroy"), twice |-> ctx = "destroyed"]
      ELSE [context |-> ctx, destroys |-> n, teardown |-> log, twice |-> FALSE]

-----------------------------------------------------------------------------
(* GLFW callbacks.  GLFW calls them from glfwPollEvents only. *)

\* events polled at any point of the loop body
CallbacksEnabled_Anywhere ==
    pc \in {"poll", "mouse", "render", "rtpass", "ppass", "gather"}

CallbacksEnabled ==
    pc = "poll"

Event(e) ==
    lastEvent' = [e EXCEPT !.seq = 1 - lastEvent.seq]

\* the quit case without its exit(): the loop goes on with the destroyed context
KeyQuit_NoExit ==
    /\ context' = IF context # "null" THEN "destroyed" ELSE context
    /\ destroys' = IF context # "null" THEN destroys + 1 ELSE destroys
    /\ misuse' = (misuse \/ context = "destroyed")
    /\ window' = IF window # "none" THEN "destroyed" ELSE window
    /\ glfw' = "terminated"
    /\ teardown' = teardown
                     \o (IF context # "null" THEN << "context->destroy" >> ELSE << >>)
                     \o (IF window # "none" THEN << "glfwDestroyWindow" >> ELSE << >>)
                     \o << "glfwTerminate" >>
    /\ UNCHANGED << pc, exit_code, camera, buf, accumulation_frame, hits_stale,
                    written >>

\* case GLFW_KEY_Q: case GLFW_KEY_ESCAPE:
KeyQuit ==
    /\ context' = IF context # "null" THEN "destroyed" ELSE context
    /\ destroys' = IF context # "null" THEN destroys + 1 ELSE destroys
    /\ misuse' = (misuse \/ context = "destroyed")
    /\ window' = IF window # "none" THEN "destroyed" ELSE window
    /\ glfw' = "terminated"
    /\ teardown' = teardown
                     \o (IF context # "null" THEN << "context->destroy" >> ELSE << >>)
                     \o (IF window # "none" THEN << "glfwDestroyWindow" >> ELSE << >>)
                     \o << "glfwTerminate" >>
    /\ pc' = "exited"
    /\ exit_code' = 0
    /\ UNCHANGED << camera, buf, accumulation_frame, hits_stale, written >>

\* case GLFW_KEY_S:
KeySave ==
    /\ Use
    /\ written' = written \cup {OUTPUT_IMAGE}
    /\ UNCHANGED << context, destroys, window, glfw, teardown, pc, exit_code,
                    camera, buf, accumulation_frame, hits_stale >>

\* the camera is re-centred without restarting the accumulation
KeyRecenter_NoRestart ==
    /\ hits_stale' = TRUE
    /\ UNCHANGED << context, destroys, misuse, window, glfw, teardown, pc,
                    exit_code, camera, buf, written, accumulation_frame >>

\* case GLFW_KEY_F:
KeyRecenter ==
    /\ hits_stale' = TRUE
    /\ accumulation_frame' = 0
    /\ UNCHANGED << context, destroys, misuse, window, glfw, teardown, pc,
                    exit_code, camera, buf, written >>

\* any other key or action: forwarded to ImGui_ImplGlfw_KeyCallback
KeyForward ==
    UNCHANGED << context, destroys, misuse, window, glfw, teardown, pc, exit_code,
                 camera, buf, accumulation_frame, hits_stale, written >>

KeyCallback(key, action) ==
    /\ CallbacksEnabled
    /\ Event([kind |-> "key", seq |-> 0])
    /\ IF action = "PRESS" /\ key \in {"Q", "ESCAPE"} THEN KeyQuit
       ELSE IF action = "PRESS" /\ key = "S" THEN KeySave
       ELSE IF action = "PRESS" /\ key = "F" THEN KeyRecenter
       ELSE KeyForward
    /\ UNCHANGED << mainVars, shouldClose, frame_count, frame_number,
                    total_emitted, inflight, launches, lastSize >>

\* the resize of rtpass_output_buffer left out
ResizeBuffers_NoHitBuffer(w, h) ==
    [b \in PixelBuffers |-> IF b = "rtpass_output_buffer" THEN buf[b] ELSE <<w, h>>]

\* the four sutil::resizeBuffer calls
ResizeBuffers(w, h) ==
    [b \in PixelBuffers |-> <<w, h>>]

WindowSizeCallback(w, h) ==
    /\ CallbacksEnabled
    /\ Event([kind |-> IF w < 0 \/ h < 0 THEN "size_negative" ELSE "size", seq |-> 0])
    /\ lastSize' = IF w >= 0 /\ h >= 0 THEN <<w, h>> ELSE lastSize
    /\ IF w < 0 \/ h < 0
         THEN UNCHANGED << camera, accumulation_frame, hits_stale, buf, misuse >>
         ELSE LET r == CameraResize(camera, w, h)
              IN  /\ camera' = r.cam
                  /\ accumulation_frame' = IF r.changed THEN 0 ELSE accumulation_frame
                  /\ hits_stale' = (hits_stale \/ r.changed)
                  /\ Use
                  /\ buf' = ResizeBuffers(w, h)
    /\ UNCHANGED << mainVars, pc, exit_code, context, destroys, window, glfw,
                    teardown, shouldClose, frame_count, frame_number,
                    total_emitted, inflight, launches, written >>

\* the user closes the window: GLFW sets the window's close flag
CloseRequest ==
    /\ CallbacksEnabled
    /\ ~shouldClose
    /\ shouldClose' = TRUE
    /\ UNCHANGED << mainVars, restOfMainButClose, loopVars, pc, exit_code >>

-----------------------------------------------------------------------------
(* glfwRun: the display loop *)

ctxVars ==
    << context, destroys, window, glfw, teardown >>

\* while( !glfwWindowShouldClose( window ) )
LoopTest ==
    /\ pc = "loop"
    /\ IF shouldClose
         THEN /\ pc' = "cleanup"
              /\ UNCHANGED launches
         ELSE /\ pc' = "poll"
              /\ launches' = << >>
    /\ UNCHANGED << mainVars, exit_code, ctxVars, misuse, shouldClose, camera, buf,
                    written, accumulation_frame, frame_count, frame_number,
                    total_emitted, inflight, hits_stale, lastSize, lastEvent >>

\* glfwPollEvents() returns; ImGui_ImplGlfw_NewFrame()
PollReturn ==
    /\ pc = "poll"
    /\ pc' = "mouse"
    /\ UNCHANGED << mainVars, exit_code, restOfMain, loopVars >>

\* if (!io.WantCaptureMouse) { if ( camera.process_mouse( ... ) ) accumulation_frame = 0; }
\* moved: what camera.process_mouse returns, true iff it changed the camera
ProcessMouse(wantCaptureMouse, moved) ==
    /\ pc = "mouse"
    /\ IF ~wantCaptureMouse /\ moved
         THEN /\ accumulation_frame' = 0
              /\ hits_stale' = TRUE
         ELSE UNCHANGED << accumulation_frame, hits_stale >>
    /\ pc' = "render"
    /\ UNCHANGED << mainVars, exit_code, restOfMain, frame_count, frame_number,
                    total_emitted, inflight, launches, lastSize, lastEvent >>

\* the comparison made against the counter's value before its increment
FirstPass_PreIncrement(acc) ==
    IF acc = 0 THEN "rtpass" ELSE "ppass"

\* which launch follows context["frame_number"]->setFloat( accumulation_frame++ )
FirstPass(acc) ==
    IF acc = 1 THEN "rtpass" ELSE "ppass"

\* sutil::displayFps( frame_count++ ); frame_number = accumulation_frame++;
\* if ( accumulation_frame == 1 )
BeginRender ==
    /\ pc = "render"
    /\ frame_count < MaxFrames
    /\ frame_count' = IncU(frame_count)
    /\ Use
    /\ frame_number' = ToFloat(accumulation_frame)
    /\ accumulation_frame' = IncU(accumulation_frame)
    /\ pc' = FirstPass(accumulation_frame')
    /\ UNCHANGED << mainVars, exit_code, ctxVars, shouldClose, camera, buf, written,
                    total_emitted, inflight, launches, hits_stale, lastSize,
                    lastEvent >>

\* context->launch( prog, w, h ) is entered
StartLaunch(prog, w, h) ==
    /\ pc = prog
    /\ prog \notin inflight
    /\ Use
    /\ inflight' = inflight \cup {prog}
    /\ launches' = Append(launches, Launch(prog, w, h))
    /\ hits_stale' = IF prog = "rtpass" THEN FALSE ELSE hits_stale
    /\ UNCHANGED << mainVars, pc, exit_code, ctxVars, shouldClose, camera, buf,
                    written, accumulation_frame, frame_count, frame_number,
                    total_emitted, lastSize, lastEvent >>

LaunchRtpass ==
    StartLaunch("rtpass", camera.width, camera.height)

LaunchPpass ==
    StartLaunch("ppass", photon_launch_dim, photon_launch_dim)

LaunchGather ==
    StartLaunch("gather", camera.width, camera.height)

\* launch( rtpass ... ) returns; context["total_emitted"]->setFloat( 0.0f )
ReturnRtpass ==
    /\ pc = "rtpass"
    /\ "rtpass" \in inflight
    /\ inflight' = inflight \ {"rtpass"}
    /\ Use
    /\ total_emitted' = ToFloat(0)
    /\ pc' = "ppass"
    /\ UNCHANGED << mainVars, exit_code, ctxVars, shouldClose, camera, buf, written,
                    accumulation_frame, frame_count, frame_number, launches,
                    hits_stale, lastSize, lastEvent >>

\* launch( ppass ... ) returns; total_emitted = accumulation_frame * dim * dim,
\* a product of an unsigned long long that stays below 2^50
ReturnPpass ==
    /\ pc = "ppass"
    /\ "ppass" \in inflight
    /\ inflight' = inflight \ {"ppass"}
    /\ Use
    /\ total_emitted' =
         ToFloat(accumulation_frame * photon_launch_dim * photon_launch_dim)
    /\ pc' = "gather"
    /\ UNCHANGED << mainVars, exit_code, ctxVars, shouldClose, camera, buf, written,
                    accumulation_frame, frame_count, frame_number, launches,
                    hits_stale, lastSize, lastEvent >>

\* launch( gather ... ) returns; displayBufferGL, ImGui::Render, glfwSwapBuffers
ReturnGather ==
    /\ pc = "gather"
    /\ "gather" \in inflight
    /\ inflight' = inflight \ {"gather"}
    /\ Use
    /\ pc' = "loop"
    /\ UNCHANGED << mainVars, exit_code, ctxVars, shouldClose, camera, buf, written,
                    accumulation_frame, frame_count, frame_number, total_emitted,
                    launches, hits_stale, lastSize, lastEvent >>

\* after the loop: destroyContext(); glfwDestroyWindow( window ); glfwTerminate();
\* then main returns 0
Cleanup ==
    /\ pc = "cleanup"
    /\ LET d == DestroyContext(context, destroys, teardown)
       IN  /\ context' = d.context
           /\ destroys' = d.destroys
           /\ misuse' = (misuse \/ d.twice)
           /\ teardown' = d.teardown \o << "glfwDestroyWindow", "glfwTerminate" >>
    /\ window' = "destroyed"
    /\ glfw' = "terminated"
    /\ pc' = "returned"
    /\ exit_code' = 0
    /\ UNCHANGED << mainVars, shouldClose, camera, buf, written, loopVars >>

-----------------------------------------------------------------------------
Next ==
    \/ ParseHelp
    \/ ParseFile
    \/ ParseNoPbo
    \/ ParseUnknown
    \/ ParseMesh
    \/ ParseDone
    \/ GlfwInitialize
    \/ \E ok \in BOOLEAN : GlewInit(ok)
    \/ CreateContext
    \/ MainBranch
    \/ LoopTest
    \/ \E key \in Keys, action \in KeyActions : KeyCallback(key, action)
    \/ \E w \in Sizes, h \in Sizes : WindowSizeCallback(w, h)
    \/ CloseRequest
    \/ PollReturn
    \/ \E wantCaptureMouse \in BOOLEAN, moved \in BOOLEAN :
          ProcessMouse(wantCaptureMouse, moved)
    \/ BeginRender
    \/ LaunchRtpass
    \/ ReturnRtpass
    \/ LaunchPpass
    \/ ReturnPpass
    \/ LaunchGather
    \/ ReturnGather
    \/ Cleanup

Spec ==
    Init /\ [][Next]_vars

-----------------------------------------------------------------------------
(* Properties *)

Progs(log) ==
    [k \in 1..Len(log) |-> log[k].prog]

IsPrefix(a, b) ==
    /\ Len(a) <= Len(b)
    /\ \A k \in 1..Len(a) : a[k] = b[k]

InLoop ==
    pc \in {"loop", "poll", "mouse", "render", "rtpass", "ppass", "gather"}

\* the previous loop iteration ran to its end and the next has not begun
IterationDone ==
    pc = "loop" /\ frame_count > 0

\* the interactive run has ended (Q / ESC, or the window was closed)
InteractiveEnded ==
    pc \in {"exited", "returned"} /\ exit_code = 0 /\ out_file = ""

\* C1: a run started with -f / --file <output_file> writes the output buffer to
\* that file before main returns.
C1_SaveAndExit ==
    (pc = "returned" /\ out_file # "") => out_file \in written

\* C2: in every iteration of the display loop the launches are, in this order,
\* at most one rtpass, exactly one ppass, exactly one gather; rtpass is launched
\* in exactly the iterations whose frame_number was set to 0, the first included.
C2_PassOrder ==
    /\ \/ IsPrefix(Progs(launches), << "rtpass", "ppass", "gather" >>)
       \/ IsPrefix(Progs(launches), << "ppass", "gather" >>)
    /\ IterationDone =>
         /\ Progs(launches) \in {<< "rtpass", "ppass", "gather" >>, << "ppass", "gather" >>}
         /\ (launches[1].prog = "rtpass") <=> (frame_number = 0)
         /\ \A k \in 1..Len(launches) : launches[k].frame_number = frame_number
         /\ frame_count = 1 => launches[1].prog = "rtpass"
    /\ (pc \in {"ppass", "gather"} /\ frame_number = 0) =>
         (Len(launches) > 0 /\ launches[1].prog = "rtpass")

\* an iteration without rtpass and, later, one with it have both completed
C2_Witness ==
    /\ IterationDone
    /\ frame_count = 2
    /\ Progs(launches) = << "ppass", "gather" >>
    /\ frame_number = 1

\* C3: once the camera has changed (F, a resize that camera.resize accepts, mouse
\* input that process_mouse accepts) the accumulation counter is 0 until the
\* next rtpass launch, which is made with frame_number 0 before the next gather
\* launch: no gather is launched on hit records older than the camera.
C3_FreshHits ==
    /\ (hits_stale /\ InLoop) =>
          \/ pc \in {"loop", "poll", "mouse", "render"} /\ accumulation_frame = 0
          \/ pc = "rtpass" /\ "rtpass" \notin inflight /\ frame_number = 0
    /\ \A k \in 1..Len(launches) :
          launches[k].prog = "gather" =>
             /\ ~launches[k].stale
             /\ launches[1].stale =>
                  (launches[1].prog = "rtpass" /\ launches[1].frame_number = 0)

\* a later iteration in which the camera had changed: rtpass ran again, then gather
C3_Witness ==
    /\ pc = "gather"
    /\ frame_count = 2
    /\ Len(launches) = 3
    /\ launches[1].prog = "rtpass"
    /\ launches[1].stale
    /\ ~launches[3].stale

SameIteration ==
    \A j, k \in 1..Len(launches) :
       /\ launches[j].accumulation_frame = launches[k].accumulation_frame
       /\ launches[j].buf = launches[k].buf
       /\ launches[j].accumulation_frame = accumulation_frame
       /\ launches[j].buf = buf

\* C4: at most one launch is in progress; callbacks are delivered only by
\* glfwPollEvents at the start of an iteration, never between or during its
\* launches, so the accumulation counter and the buffer dimensions are the same
\* at all launches of one iteration.
C4_SingleThreaded ==
    /\ [](Cardinality(inflight) <= 1 /\ SameIteration)
    /\ [][lastEvent' # lastEvent =>
            (pc = "poll" /\ inflight = {} /\ launches = << >>)]_vars

\* the third launch of an iteration that began with a resize
C4_Witness ==
    /\ inflight = {"gather"}
    /\ Len(launches) = 3
    /\ lastEvent.kind = "size"
    /\ launches[3].buf["rtpass_output_buffer"] = <<0, WIDTH>>
    /\ launches[1].accumulation_frame = 1

\* C5: however the interactive run ends, the context is destroyed exactly once,
\* then the window is destroyed and GLFW terminated; nothing uses the context or
\* destroys it again afterwards; destroyContext on a cleared context does nothing.
C5_QuitOnce ==
    /\ destroys <= 1
    /\ ~misuse
    /\ destroys > 0 => (pc \in {"exited", "returned"} /\ inflight = {})
    /\ InteractiveEnded =>
         /\ destroys = 1
         /\ context # "live"
         /\ teardown = << "context->destroy", "glfwDestroyWindow", "glfwTerminate" >>
         /\ window = "destroyed"
         /\ glfw = "terminated"
    /\ DestroyContext("null", destroys, teardown) =
          [context |-> "null", destroys |-> destroys, teardown |-> teardown,
           twice |-> FALSE]

\* Q or ESC pressed after at least one frame was rendered
C5_Witness ==
    /\ pc = "exited"
    /\ exit_code = 0
    /\ frame_count >= 1
    /\ context = "destroyed"
    /\ destroys = 1

LaunchDimensions ==
    \A k \in 1..Len(launches) :
       launches[k].prog \in {"rtpass", "gather"} =>
          /\ \A b \in PixelBuffers : launches[k].buf[b] = << launches[k].w, launches[k].h >>
          /\ << launches[k].w, launches[k].h >> = lastSize

=============================================================================
